---- MODULE Spec2Model ----
(***************************************************************************)
(* Tic-tac-toe component of TicTacPro.                                     *)
(*                                                                         *)
(* The repository holds two versions of the component:                     *)
(*   "minimax" : src/components/TicTacToe/TicTacToe.tsx (hard/easy)        *)
(*   "random"  : src/unnamed/part_001 (random computer only)               *)
(* Both keep the game in React state; a handler reads the state of the     *)
(* render it was created in and an `await playSound()` inside a handler    *)
(* lets other events run before the handler continues.                     *)
(***************************************************************************)
EXTENDS Integers, Sequences, FiniteSets, TLC

\* ------------------------------------------------------------------ bounds
MaxScore == 1
MaxPending == 2
MaxEmpty == 9
MaxMarks == 5
MaxCell == 2

\* --------------------------------------------------------------- constants
Null == "null"
Undefined == "undefined"
BOARD_SIZE == 9
NegInfinity == -1000
PosInfinity == 1000

Idx == 0 .. (BOARD_SIZE - 1)
Cell == {Null, "X", "O"}
Boards == [Idx -> Cell]
initialBoard == [i \in Idx |-> Null]

winningLines ==
  << <<0, 1, 2>>, <<3, 4, 5>>, <<6, 7, 8>>,
     <<0, 3, 6>>, <<1, 4, 7>>, <<2, 5, 8>>,
     <<0, 4, 8>>, <<2, 4, 6>> >>

lines ==
  << <<0, 1, 2>>, <<3, 4, 5>>, <<6, 7, 8>>,
     <<0, 3, 6>>, <<1, 4, 7>>, <<2, 5, 8>>,
     <<0, 4, 8>>, <<2, 4, 6>> >>

\* squares[a] && squares[a] === squares[b] && squares[a] === squares[c]
lineMatch(squares, l) ==
  /\ squares[l[1]] # Null
  /\ squares[l[1]] = squares[l[2]]
  /\ squares[l[1]] = squares[l[3]]

includesNull(squares) == \E i \in Idx : squares[i] = Null

everyNotNull(squares) == \A i \in Idx : squares[i] # Null

\* ------------------------------------------------------- win/draw detection
\* for (const [a, b, c] of winningLines) ... return squares[a]
RECURSIVE scanWinningLines(_, _)
scanWinningLines(squares, k) ==
  IF k > Len(winningLines) THEN Null
  ELSE IF lineMatch(squares, winningLines[k]) THEN squares[winningLines[k][1]]
  ELSE scanWinningLines(squares, k + 1)

\* the full board tested before the lines
evaluateWinnerFullFirst(squares) ==
  IF ~includesNull(squares) THEN "draw" ELSE scanWinningLines(squares, 1)

evaluateWinner(squares) ==
  LET hit == scanWinningLines(squares, 1)
  IN IF hit # Null THEN hit
     ELSE IF includesNull(squares) THEN Null ELSE "draw"

RECURSIVE scanLines(_, _)
scanLines(squares, k) ==
  IF k > Len(lines) THEN Null
  ELSE IF lineMatch(squares, lines[k]) THEN squares[lines[k][1]]
  ELSE scanLines(squares, k + 1)

checkWinner(squares) ==
  LET hit == scanLines(squares, 1)
  IN IF hit # Null THEN hit
     ELSE IF everyNotNull(squares) THEN "draw" ELSE Null

\* ------------------------------------------------------------ move selector
abs(x) == IF x < 0 THEN -x ELSE x
max(a, b) == IF a > b THEN a ELSE b
min(a, b) == IF a < b THEN a ELSE b

RECURSIVE scanEvaluate(_, _)
scanEvaluate(b, k) ==
  IF k > Len(winningLines) THEN 0
  ELSE IF lineMatch(b, winningLines[k])
       THEN (IF b[winningLines[k][1]] = "O" THEN 10 ELSE -10)
  ELSE scanEvaluate(b, k + 1)

\* the two scores exchanged
evaluateSwapped(b) == -scanEvaluate(b, 1)

evaluate(b) == scanEvaluate(b, 1)

\* the depth added to the size of the score
shapedScoreAway(score, depth) == score + depth * (score \div abs(score))

\* score - depth * (score / Math.abs(score))
shapedScore(score, depth) == score - depth * (score \div abs(score))

\* b[i] = null (undoing a trial mark)
restoreCellSkipped(b, i) == b

restoreCell(b, i) == [b EXCEPT ![i] = Null]

\* The search writes trial marks into the array it was given and sets the
\* cell back to null afterwards; the array is threaded through the search,
\* so a result is the pair of the value and the array as the call left it.
SearchResult == [val : Int, b : Boards]

RECURSIVE minimax(_, _, _)

minimaxLoop[b \in Boards, depth \in Nat, isMax \in BOOLEAN, i \in 0 .. BOARD_SIZE, best \in Int] ==
  IF i >= BOARD_SIZE THEN [val |-> best, b |-> b]
  ELSE IF b[i] = Null
    THEN LET undo[r \in SearchResult] ==
               minimaxLoop[restoreCell(r.b, i), depth, isMax, i + 1,
                           IF isMax THEN max(best, r.val) ELSE min(best, r.val)]
         IN undo[minimax([b EXCEPT ![i] = IF isMax THEN "O" ELSE "X"], depth + 1, ~isMax)]
    ELSE minimaxLoop[b, depth, isMax, i + 1, best]

minimax(b, depth, isMax) ==
  LET score == evaluate(b)
  IN IF score # 0 THEN [val |-> shapedScore(score, depth), b |-> b]
     ELSE IF ~includesNull(b) THEN [val |-> 0, b |-> b]
     ELSE minimaxLoop[b, depth, isMax, 0, IF isMax THEN NegInfinity ELSE PosInfinity]

\* a later cell of equal value replaces the candidate
betterMoveOrEqual(val, bestVal) == val >= bestVal

\* if (val > bestVal) { bestVal = val; move = i; }
betterMove(val, bestVal) == val > bestVal

rootLoop[currentBoard \in Boards, i \in 0 .. BOARD_SIZE, bestVal \in Int, move \in -1 .. BOARD_SIZE] ==
  IF i >= BOARD_SIZE THEN [move |-> move, b |-> currentBoard]
  ELSE IF currentBoard[i] = Null
    THEN LET undo[r \in SearchResult] ==
               IF betterMove(r.val, bestVal)
               THEN rootLoop[restoreCell(r.b, i), i + 1, r.val, i]
               ELSE rootLoop[restoreCell(r.b, i), i + 1, bestVal, move]
         IN undo[minimax([currentBoard EXCEPT ![i] = "O"], 0, FALSE)]
    ELSE rootLoop[currentBoard, i + 1, bestVal, move]

\* the root loop started with bestVal = 0
selectHardFromZero(currentBoard) == rootLoop[currentBoard, 0, 0, -1]

\* difficulty === 'hard': the move and the array after the search
selectHard(currentBoard) == rootLoop[currentBoard, 0, NegInfinity, -1]

\* currentBoard.map((v, i) => (v === null ? i : null)).filter((v) => v !== null)
available(currentBoard) == {i \in Idx : currentBoard[i] = Null}

\* available[Math.floor(Math.random() * available.length)]
selectRandom(currentBoard) ==
  IF available(currentBoard) = {} THEN {Undefined} ELSE available(currentBoard)

\* every (move, array after selection) the selector can produce
selectMove(diff, currentBoard) ==
  IF diff = "hard"
  THEN {selectHard(currentBoard)}
  ELSE {[move |-> m, b |-> currentBoard] : m \in selectRandom(currentBoard)}

\* const newBoard = [...currentBoard]; newBoard[move] = mark
placeMark(b, move, mark) ==
  IF move \in Idx THEN [b EXCEPT ![move] = mark] ELSE b

\* ------------------------------------------------------------------- state
VARIABLES
  variant,        \* which version of the component is mounted
  board,          \* useState(initialBoard)
  currentPlayer,  \* useState('X')
  winner,         \* useState(null)
  gameMode,       \* useState('single')
  difficulty,     \* useState('hard')   (minimax version only)
  scores,         \* useState({ X: 0, O: 0 })
  sound,          \* useState(null): TRUE once the sound object is loaded
  soundEnabled,   \* useState(true)
  loading,        \* a createAsync call is in flight
  timer,          \* the setTimeout of the computer-move effect is armed
  pending,        \* handlers suspended at `await playSound()`
  lastOp,         \* history: the handler that ran in the last step
  lastPlaced,     \* history: who placed the last mark of this game
  inBoard,        \* probe: the array handed to a pure function
  out,            \* probe: what the function returned
  silent          \* the game a component with no sound holds after the same events

gameVars == <<board, currentPlayer, winner, scores>>
configVars == <<variant, gameMode, difficulty>>
soundVars == <<sound, soundEnabled, loading>>
histVars == <<lastOp, lastPlaced>>
probeVars == <<inBoard, out>>
vars == <<variant, board, currentPlayer, winner, gameMode, difficulty, scores,
          sound, soundEnabled, loading, timer, pending, lastOp, lastPlaced,
          inBoard, out, silent>>

Variants == {"minimax", "random"}
Marks == {"X", "O"}
NoProbe == "none"
NoTwin == [twin |-> "none"]

\* state after construction (first render, sound still loading)
Mounted(v) ==
  /\ variant = v
  /\ board = initialBoard
  /\ currentPlayer = "X"
  /\ winner = Null
  /\ gameMode = "single"
  /\ difficulty = IF v = "minimax" THEN "hard" ELSE "easy"
  /\ scores = [X |-> 0, O |-> 0]
  /\ sound = FALSE
  /\ soundEnabled = TRUE
  /\ loading = TRUE
  /\ timer = FALSE
  /\ pending = <<>>
  /\ lastOp = "mount"
  /\ lastPlaced = Null
  /\ inBoard = NoProbe
  /\ out = NoProbe

Init == \E v \in Variants : Mounted(v) /\ silent = NoTwin

\* ------------------------------------------------------------------- sound
\* does `await playSound()` wait for the native player (other events can run
\* meanwhile), or does it resolve before the next event
playSoundSuspends ==
  IF variant = "minimax"
  THEN soundEnabled /\ sound      \* if (soundEnabled && sound) { await ... }
  ELSE sound                      \* if (sound) await sound.replayAsync()

\* Audio.Sound.createAsync resolved: setSound(sound)
loadSoundOk ==
  /\ loading
  /\ loading' = FALSE
  /\ sound' = TRUE
  /\ UNCHANGED soundEnabled

\* Audio.Sound.createAsync rejected: setSoundEnabled(false)
loadSoundFail ==
  /\ loading
  /\ loading' = FALSE
  /\ soundEnabled' = FALSE
  /\ UNCHANGED sound

\* ------------------------------------------------------- computer-move effect
\* gameMode === 'single' && currentPlayer === 'O' && !winner
effectCondition(gm, cp, w) == gm = "single" /\ cp = "O" /\ w = Null

\* The effect runs again (clearing the old timeout) when one of its
\* dependencies changed in this step; otherwise the timeout is left as it is.
effectTimer(boardSet, fired) ==
  IF \/ boardSet
     \/ currentPlayer' # currentPlayer
     \/ gameMode' # gameMode
     \/ winner' # winner
     \/ /\ variant = "minimax"
        /\ \/ difficulty' # difficulty
           \/ sound' # sound
           \/ soundEnabled' # soundEnabled
  THEN effectCondition(gameMode', currentPlayer', winner')
  ELSE timer /\ ~fired

\* ------------------------------------------------------- applying an outcome
\* setWinner(gameWinner) and the score update, or the turn change
\* (the tail shared by updateGameState, handleClick and makeComputerMove)
applyOutcome(gameWinner, nextPlayer) ==
  IF gameWinner # Null
  THEN /\ winner' = gameWinner
       /\ IF gameWinner # "draw"
          THEN scores' = [scores EXCEPT ![gameWinner] = @ + 1]
          ELSE UNCHANGED scores
       /\ UNCHANGED currentPlayer
  ELSE /\ currentPlayer' = nextPlayer
       /\ UNCHANGED <<winner, scores>>

otherPlayer(p) == IF p = "X" THEN "O" ELSE "X"

Continuation(kind, b, move, player) ==
  [kind |-> kind, b |-> b, move |-> move, player |-> player, stale |-> FALSE]

removeAt(q, k) == [j \in 1 .. (Len(q) - 1) |-> IF j < k THEN q[j] ELSE q[j + 1]]

markStale(q) == [j \in 1 .. Len(q) |-> [q[j] EXCEPT !.stale = TRUE]]

\* ------------------------------------------- the same events with no sound
\* When silent is not NoTwin it is the game (board, currentPlayer, winner,
\* scores) of a TicTacToe.tsx component in which playSound never waits:
\* every tap, timeout and reset of the component is applied to it as well,
\* each handler running to its end.  gameMode is set by the same toggles in
\* both, so the component's own value is read.
\* setWinner(gameWinner) and the score update, or the turn change
quietOutcome(g, newBoard, nextPlayer) ==
  LET gameWinner == evaluateWinner(newBoard)
  IN IF gameWinner # Null
     THEN [g EXCEPT !.board = newBoard,
                    !.winner = gameWinner,
                    !.scores = IF gameWinner # "draw"
                               THEN [@ EXCEPT ![gameWinner] = @ + 1] ELSE @]
     ELSE [g EXCEPT !.board = newBoard, !.currentPlayer = nextPlayer]

\* handleClick(index) and updateGameState(index)
quietClick(g, index) ==
  IF (gameMode = "multi" \/ g.currentPlayer = "X")
       /\ ~(g.board[index] # Null \/ g.winner # Null)
  THEN quietOutcome(g, placeMark(g.board, index, g.currentPlayer),
                    otherPlayer(g.currentPlayer))
  ELSE g

\* the timeout, when the effect has one armed, and makeComputerMove with the
\* move the selector returned
quietComputerMove(g, move) ==
  IF effectCondition(gameMode, g.currentPlayer, g.winner)
       /\ move \in Idx /\ g.board[move] = Null
  THEN quietOutcome(g, placeMark(g.board, move, "O"), "X")
  ELSE g

\* resetGame
quietReset(g) ==
  [g EXCEPT !.board = initialBoard, !.currentPlayer = "X", !.winner = Null]

twinAfter(g) == IF silent = NoTwin THEN NoTwin ELSE g

\* ------------------------------------------- TicTacToe.tsx: human move
\* the cell test alone
moveRejectedOccupiedOnly(b, index, w) == b[index] # Null

\* if (board[index] || winner) return
moveRejected(b, index, w) == b[index] # Null \/ w # Null

\* updateGameState(index): the mark is written with setBoard before
\* `await playSound()`; winner, scores and turn are set after it, from the
\* newBoard and currentPlayer of the render the tap was made in.
updateGameState(index) ==
  IF moveRejected(board, index, winner)
  THEN /\ lastOp' = "tapRejected"
       /\ UNCHANGED <<gameVars, timer, pending, lastPlaced>>
  ELSE LET newBoard == placeMark(board, index, currentPlayer)
       IN /\ board' = newBoard
          /\ lastOp' = "tapAccepted"
          /\ lastPlaced' = currentPlayer
          /\ IF playSoundSuspends
             THEN /\ Len(pending) < MaxPending
                  /\ pending' = Append(pending,
                        Continuation("update", newBoard, index, currentPlayer))
                  /\ UNCHANGED <<currentPlayer, winner, scores>>
             ELSE /\ applyOutcome(evaluateWinner(newBoard), otherPlayer(currentPlayer))
                  /\ UNCHANGED pending
          /\ timer' = effectTimer(TRUE, FALSE)

handleClick(index) ==
  /\ variant = "minimax"
  /\ UNCHANGED <<configVars, soundVars, probeVars>>
  /\ silent' = twinAfter(quietClick(silent, index))
  /\ IF gameMode = "multi" \/ currentPlayer = "X"
     THEN updateGameState(index)
     ELSE /\ lastOp' = "tapIgnored"
          /\ UNCHANGED <<gameVars, timer, pending, lastPlaced>>

\* updateGameState after `await playSound()`
resumeUpdate(k) ==
  /\ k \in DOMAIN pending
  /\ pending[k].kind = "update"
  /\ UNCHANGED <<board, lastPlaced, configVars, soundVars, probeVars, silent>>
  /\ applyOutcome(evaluateWinner(pending[k].b), otherPlayer(pending[k].player))
  /\ pending' = removeAt(pending, k)
  /\ lastOp' = "tapResume"
  /\ timer' = effectTimer(FALSE, FALSE)

\* ------------------------------------------- TicTacToe.tsx: computer move
\* makeComputerMove after `await playSound()`
finishComputerMove(currentBoard, move) ==
  LET newBoard == placeMark(currentBoard, move, "O")
  IN /\ board' = newBoard
     /\ applyOutcome(evaluateWinner(newBoard), "X")
     /\ lastOp' = "computerMove"
     /\ lastPlaced' = IF move \in Idx THEN "O" ELSE lastPlaced

\* the timeout fires: makeComputerMove(board) selects the move, then awaits
makeComputerMove ==
  /\ variant = "minimax"
  /\ timer
  /\ UNCHANGED <<configVars, soundVars, probeVars>>
  /\ \E sel \in selectMove(difficulty, board) :
     /\ silent' = twinAfter(quietComputerMove(silent, sel.move))
     /\ IF playSoundSuspends
        THEN /\ Len(pending) < MaxPending
             /\ pending' = Append(pending,
                   Continuation("computer", sel.b, sel.move, "O"))
             /\ board' = sel.b
             /\ timer' = FALSE
             /\ lastOp' = "computerStart"
             /\ UNCHANGED <<currentPlayer, winner, scores, lastPlaced>>
        ELSE /\ finishComputerMove(sel.b, sel.move)
             /\ timer' = effectTimer(TRUE, TRUE)
             /\ UNCHANGED pending

resumeComputerMove(k) ==
  /\ k \in DOMAIN pending
  /\ pending[k].kind = "computer"
  /\ UNCHANGED <<configVars, soundVars, probeVars, silent>>
  /\ finishComputerMove(pending[k].b, pending[k].move)
  /\ pending' = removeAt(pending, k)
  /\ timer' = effectTimer(TRUE, FALSE)

\* ------------------------------------------- part_001: human move
\* handleClick after `await playSound()`: board and currentPlayer are those
\* of the render the tap was made in
finishClick(b, index, player) ==
  LET newBoard == placeMark(b, index, player)
  IN /\ board' = newBoard
     /\ applyOutcome(checkWinner(newBoard), otherPlayer(player))
     /\ lastPlaced' = player
     /\ timer' = effectTimer(TRUE, FALSE)

\* if (board[index] || winner) return
legacyMoveRejected(b, index, w) == b[index] # Null \/ w # Null

\* renderSquare's onPress and handleClick(index)
legacyHandleClick(index) ==
  /\ variant = "random"
  /\ UNCHANGED <<configVars, soundVars, probeVars, silent>>
  /\ IF legacyMoveRejected(board, index, winner)
     THEN /\ lastOp' = "tapRejected"
          /\ UNCHANGED <<gameVars, timer, pending, lastPlaced>>
     ELSE /\ lastOp' = "tapAccepted"
          /\ IF playSoundSuspends
             THEN /\ Len(pending) < MaxPending
                  /\ pending' = Append(pending,
                        Continuation("click", board, index, currentPlayer))
                  /\ UNCHANGED <<gameVars, timer, lastPlaced>>
             ELSE /\ finishClick(board, index, currentPlayer)
                  /\ UNCHANGED pending

legacyResumeClick(k) ==
  /\ k \in DOMAIN pending
  /\ pending[k].kind = "click"
  /\ UNCHANGED <<configVars, soundVars, probeVars, silent>>
  /\ finishClick(pending[k].b, pending[k].move, pending[k].player)
  /\ pending' = removeAt(pending, k)
  /\ lastOp' = "tapResume"

\* ------------------------------------------- part_001: computer move
\* emptySquares
emptySquares(currentBoard) == {i \in Idx : currentBoard[i] = Null}

\* emptySquares[Math.floor(Math.random() * emptySquares.length)]
legacySelect(currentBoard) == emptySquares(currentBoard)

\* the timeout fires: makeComputerMove(board), no await
legacyMakeComputerMove ==
  /\ variant = "random"
  /\ timer
  /\ UNCHANGED <<pending, configVars, soundVars, probeVars, silent>>
  /\ lastOp' = "computerMove"
  /\ IF emptySquares(board) # {}
     THEN \E index \in legacySelect(board) :
            LET newBoard == placeMark(board, index, "O")
            IN /\ board' = newBoard
               /\ applyOutcome(checkWinner(newBoard), "X")
               /\ lastPlaced' = "O"
               /\ timer' = effectTimer(TRUE, TRUE)
     ELSE /\ timer' = FALSE
          /\ UNCHANGED <<gameVars, lastPlaced>>

\* ------------------------------------------- reset and settings
\* the reset without setCurrentPlayer('X')
resetStateKeepsTurn ==
  /\ \A m \in Marks : scores[m] < MaxScore
  /\ board' = initialBoard
  /\ winner' = Null
  /\ pending' = markStale(pending)
  /\ lastPlaced' = Null
  /\ silent' = twinAfter(quietReset(silent))
  /\ UNCHANGED <<currentPlayer, scores, variant, soundVars, probeVars>>

\* setBoard(initialBoard); setCurrentPlayer('X'); setWinner(null)
resetState ==
  /\ \A m \in Marks : scores[m] < MaxScore   \* no new game once a tally is at the bound
  /\ board' = initialBoard
  /\ currentPlayer' = "X"
  /\ winner' = Null
  /\ pending' = markStale(pending)
  /\ lastPlaced' = Null
  /\ silent' = twinAfter(quietReset(silent))
  /\ UNCHANGED <<scores, variant, soundVars, probeVars>>

resetGame ==
  /\ resetState
  /\ lastOp' = "resetGame"
  /\ UNCHANGED <<gameMode, difficulty>>
  /\ timer' = effectTimer(board # initialBoard \/ variant = "random", FALSE)

toggleGameMode ==
  /\ gameMode' = IF gameMode = "single" THEN "multi" ELSE "single"
  /\ resetState
  /\ lastOp' = "toggleGameMode"
  /\ UNCHANGED difficulty
  /\ timer' = effectTimer(board # initialBoard \/ variant = "random", FALSE)

\* the difficulty button is rendered in single-player mode only
toggleDifficulty ==
  /\ variant = "minimax"
  /\ gameMode = "single"
  /\ difficulty' = IF difficulty = "easy" THEN "hard" ELSE "easy"
  /\ resetState
  /\ lastOp' = "toggleDifficulty"
  /\ UNCHANGED gameMode
  /\ timer' = effectTimer(board # initialBoard, FALSE)

\* part_001 starts another load when the sound is switched on with no sound
toggleSound ==
  /\ soundEnabled' = ~soundEnabled
  /\ loading' = (loading \/ (variant = "random" /\ ~soundEnabled /\ ~sound))
  /\ lastOp' = "toggleSound"
  /\ UNCHANGED <<sound, gameVars, pending, configVars, lastPlaced, probeVars, silent>>
  /\ timer' = effectTimer(FALSE, FALSE)

loadSound ==
  /\ loadSoundOk \/ loadSoundFail
  /\ lastOp' = "loadSound"
  /\ UNCHANGED <<gameVars, pending, configVars, lastPlaced, probeVars, silent>>
  /\ timer' = effectTimer(FALSE, FALSE)

\* ------------------------------------------- the whole component
TapIn(cells) ==
  \E index \in cells : handleClick(index) \/ legacyHandleClick(index)

Tap == TapIn(Idx)

ResumeAt(k) == resumeUpdate(k) \/ resumeComputerMove(k) \/ legacyResumeClick(k)

Resume == \E k \in 1 .. MaxPending : ResumeAt(k)

Next ==
  \/ Tap
  \/ Resume
  \/ makeComputerMove
  \/ legacyMakeComputerMove
  \/ resetGame
  \/ toggleGameMode
  \/ toggleDifficulty
  \/ toggleSound
  \/ loadSound

Spec == Init /\ [][Next]_vars

TypeOK ==
  /\ board \in Boards
  /\ currentPlayer \in Marks
  /\ winner \in Marks \cup {Null, "draw"}
  /\ gameMode \in {"single", "multi"}
  /\ difficulty \in {"easy", "hard"}
  /\ scores \in [Marks -> 0 .. (MaxScore + MaxPending + 1)]
  /\ Len(pending) <= MaxPending
  /\ timer => effectCondition(gameMode, currentPlayer, winner)

\* ------------------------------------------- restricted specifications
marksOn(b) == Cardinality({i \in Idx : b[i] # Null})

\* Both versions with the sound not (yet) loaded: every handler runs to its
\* end before the next event.
InitQuiet == Init

NextQuiet ==
  \/ Tap
  \/ makeComputerMove
  \/ legacyMakeComputerMove
  \/ resetGame
  \/ toggleGameMode
  \/ toggleDifficulty

SpecQuiet == InitQuiet /\ [][NextQuiet]_vars

\* Both versions with the sound loaded and enabled (the minimax version after
\* toggleDifficulty has set 'easy'): every handler that plays the sound is
\* suspended at its await.  The one native player answers the calls in the
\* order they were made, so the oldest suspended handler continues first.
\* The human taps cells 0..MaxCell, and taps and timeouts are followed while
\* fewer than MaxMarks marks are on the board.
InitRace ==
  \E v \in Variants :
    /\ variant = v
    /\ board = initialBoard
    /\ currentPlayer = "X"
    /\ winner = Null
    /\ gameMode = "single"
    /\ difficulty = "easy"
    /\ scores = [X |-> 0, O |-> 0]
    /\ sound = TRUE
    /\ soundEnabled = TRUE
    /\ loading = FALSE
    /\ timer = FALSE
    /\ pending = <<>>
    /\ lastOp = IF v = "minimax" THEN "toggleDifficulty" ELSE "loadSound"
    /\ lastPlaced = Null
    /\ inBoard = NoProbe
    /\ out = NoProbe
    /\ silent = NoTwin

NextRace ==
  \/ marksOn(board) < MaxMarks /\ TapIn(0 .. MaxCell)
  \/ ResumeAt(1)
  \/ marksOn(board) < MaxMarks /\ makeComputerMove
  \/ marksOn(board) < MaxMarks /\ legacyMakeComputerMove
  \/ resetGame
  \/ toggleGameMode

SpecRace == InitRace /\ [][NextRace]_vars

\* ------------------------------------------- the pure functions on their own
\* The game is left as mounted; inBoard is the array handed to the function
\* of the mounted version and out is what came back.
ProbeInit(v, diff, b) ==
  /\ variant = v
  /\ board = initialBoard
  /\ currentPlayer = "X"
  /\ winner = Null
  /\ gameMode = "single"
  /\ difficulty = diff
  /\ scores = [X |-> 0, O |-> 0]
  /\ sound = FALSE
  /\ soundEnabled = TRUE
  /\ loading = TRUE
  /\ timer = FALSE
  /\ pending = <<>>
  /\ lastOp = "mount"
  /\ lastPlaced = Null
  /\ inBoard = b
  /\ out = NoProbe
  /\ silent = NoTwin

ProbeFrame ==
  UNCHANGED <<gameVars, configVars, soundVars, timer, pending, lastPlaced, inBoard, silent>>

\* evaluateWinner / checkWinner on every array of 9 cells
InitEval == \E v \in Variants, b \in Boards : ProbeInit(v, "easy", b)

probeWinner ==
  /\ lastOp = "mount"
  /\ out' = IF variant = "minimax" THEN evaluateWinner(inBoard) ELSE checkWinner(inBoard)
  /\ lastOp' = "probeWinner"
  /\ ProbeFrame

SpecEval == InitEval /\ [][probeWinner]_vars

\* the move selection of makeComputerMove on every array in progress with at
\* most MaxEmpty empty cells
SelectBoards ==
  {b \in Boards : evaluateWinner(b) = Null /\ Cardinality(available(b)) <= MaxEmpty}

InitSelect ==
  \E v \in Variants, diff \in {"easy", "hard"}, b \in SelectBoards :
    /\ v = "random" => diff = "easy"
    /\ ProbeInit(v, diff, b)

probeSelect ==
  /\ lastOp = "mount"
  /\ \E sel \in IF variant = "minimax"
                THEN selectMove(difficulty, inBoard)
                ELSE {[move |-> m, b |-> inBoard] : m \in legacySelect(inBoard)} :
       out' = sel
  /\ lastOp' = "probeSelect"
  /\ ProbeFrame

SpecSelect == InitSelect /\ [][probeSelect]_vars

\* minimax(b, depth, isMax) on every array and depth a root call can lead to:
\* the root places one O and calls with depth 0 and isMax false, every level
\* below places one more mark, adds 1 to depth and flips isMax.  inBoard
\* holds the array and the depth, out the value returned.
MinimaxInputs ==
  {in \in [b : Boards, depth : 0 .. (BOARD_SIZE - 1)] :
     in.depth + Cardinality(available(in.b)) < MaxEmpty}

InitMinimax == \E in \in MinimaxInputs : ProbeInit("minimax", "hard", in)

probeMinimax ==
  /\ lastOp = "mount"
  /\ out' = minimax(inBoard.b, inBoard.depth, inBoard.depth % 2 = 1).val
  /\ lastOp' = "probeMinimax"
  /\ ProbeFrame

SpecMinimax == InitMinimax /\ [][probeMinimax]_vars

\* One game of either version, with the sound loaded or not, with no reset
\* and no toggle: an armed timeout eventually fires and a handler waiting
\* for the sound eventually continues.
InitLive == Init \/ InitRace

NextLive ==
  \/ marksOn(board) < MaxMarks /\ TapIn(0 .. MaxCell)
  \/ ResumeAt(1)
  \/ makeComputerMove
  \/ legacyMakeComputerMove

SpecLive ==
  /\ InitLive
  /\ [][NextLive]_vars
  /\ WF_vars(ResumeAt(1))
  /\ WF_vars(makeComputerMove)
  /\ WF_vars(legacyMakeComputerMove)

\* TicTacToe.tsx on a fresh game after toggleDifficulty chose 'easy', the
\* sound loading, loaded or failed, switched off and on during the game, next
\* to the component with no sound that is given the same taps, timeouts and
\* resets.
InitAudio ==
  /\ variant = "minimax"
  /\ board = initialBoard
  /\ currentPlayer = "X"
  /\ winner = Null
  /\ gameMode = "single"
  /\ difficulty = "easy"
  /\ scores = [X |-> 0, O |-> 0]
  /\ sound = FALSE
  /\ soundEnabled = TRUE
  /\ loading = TRUE
  /\ timer = FALSE
  /\ pending = <<>>
  /\ lastOp = "toggleDifficulty"
  /\ lastPlaced = Null
  /\ inBoard = NoProbe
  /\ out = NoProbe
  /\ silent = [board |-> initialBoard, currentPlayer |-> "X", winner |-> Null,
               scores |-> [X |-> 0, O |-> 0]]

\* Taps on cells 0..MaxCell and timeouts are followed while fewer than
\* MaxMarks marks are on the board, new games while the silent game's tallies
\* are below MaxScore; the sound switch is tapped between handlers.
NextAudio ==
  \/ marksOn(board) < MaxMarks /\ (\E index \in 0 .. MaxCell : handleClick(index))
  \/ resumeUpdate(1)
  \/ resumeComputerMove(1)
  \/ marksOn(board) < MaxMarks /\ makeComputerMove
  \/ (\A m \in Marks : silent.scores[m] < MaxScore) /\ resetGame
  \/ pending = <<>> /\ toggleSound
  \/ loadSound

SpecAudio == InitAudio /\ [][NextAudio]_vars

\* =================================================================== claims
ResetOps == {"resetGame", "toggleGameMode", "toggleDifficulty"}
TapOps == {"tapIgnored", "tapRejected", "tapAccepted"}
hardSinglePlayer == variant = "minimax" /\ gameMode = "single" /\ difficulty = "hard"

\* C1: in single-player mode with difficulty 'hard', when every handler runs
\* to its end before the next event (X and O move in turn), no game is won
\* by X: a finished game has winner 'O' or 'draw'.
C1_MinimaxNeverLoses == hardSinglePlayer => winner # "X"

\* a hard single-player game played to a full board and drawn
C1_Witness ==
  /\ hardSinglePlayer
  /\ winner = "draw"
  /\ marksOn(board) = BOARD_SIZE
  /\ lastOp = "tapAccepted"

\* The eight lines in the order the claim gives them.
C5_ClaimedOrder ==
  << <<0, 1, 2>>, <<3, 4, 5>>, <<6, 7, 8>>,
     <<0, 3, 6>>, <<1, 4, 7>>, <<2, 5, 8>>,
     <<0, 4, 8>>, <<2, 4, 6>> >>

C5_Complete(b, k) ==
  LET l == C5_ClaimedOrder[k]
  IN  b[l[1]] # Null /\ b[l[1]] = b[l[2]] /\ b[l[1]] = b[l[3]]

C5_Expected(b) ==
  LET hits == {k \in 1..8 : C5_Complete(b, k)}
  IN  IF hits # {}
        THEN b[C5_ClaimedOrder[CHOOSE k \in hits : \A j \in hits : k <= j][1]]
        ELSE IF \A i \in Idx : b[i] # Null THEN "draw" ELSE Null

\* C5: on every 9-cell array over {X, O, null}, legal position or not, the
\* winner function returns the mark of the first complete line in the order
\* rows, columns, 0-4-8, 2-4-6; with no complete line it returns 'draw' when
\* no cell is null and null otherwise; it leaves its argument as it was.
C5_WinnerFunction ==
  lastOp = "probeWinner" =>
    /\ out = C5_Expected(inBoard)
    /\ out \in {"X", "O", "draw", Null}
    /\ out = "draw" <=> (\A k \in 1..8 : ~C5_Complete(inBoard, k))
                          /\ (\A i \in Idx : inBoard[i] # Null)

\* a full board holding a complete line of each mark: the earlier line decides
C5_Witness ==
  /\ lastOp = "probeWinner"
  /\ \A i \in Idx : inBoard[i] # Null
  /\ \E j, k \in 1..8 :
       /\ j < k
       /\ C5_Complete(inBoard, j) /\ C5_Complete(inBoard, k)
       /\ inBoard[C5_ClaimedOrder[j][1]] # inBoard[C5_ClaimedOrder[k][1]]
       /\ out = inBoard[C5_ClaimedOrder[j][1]]

\* C7: on a board with at least one empty cell the computer's selector, hard
\* or easy or the earlier version's random one, returns the index of a cell
\* that is empty, and the board array it searched is cell for cell what it
\* was before the call.
C7_SelectorEmptyCellBoardRestored ==
  lastOp = "probeSelect" =>
    /\ out.move \in Idx
    /\ inBoard[out.move] = Null
    /\ out.b = inBoard

\* the hard selector has searched a board with at least five empty cells
C7_Witness ==
  /\ lastOp = "probeSelect"
  /\ variant = "minimax" /\ difficulty = "hard"
  /\ Cardinality(available(inBoard)) >= 5
  /\ out.move \in Idx
  /\ out.b = inBoard

\* C3: a tap on a cell that already holds a mark, or a tap on any cell once
\* the game has a winner or is drawn (the full drawn board included), leaves
\* board, currentPlayer, winner and scores as they were and starts nothing.
C3_RejectedTapIsNoOp ==
  [][\A index \in Idx :
       ((board[index] # Null \/ winner # Null)
          /\ (handleClick(index) \/ legacyHandleClick(index)))
       => UNCHANGED <<board, currentPlayer, winner, scores, pending>>]_vars

\* a tap has been turned away on a full drawn board
C3_Witness ==
  /\ lastOp = "tapRejected"
  /\ winner = "draw"
  /\ marksOn(board) = BOARD_SIZE

\* a step that puts a mark on the board
placesMark == board' # board /\ lastOp' \notin ResetOps

\* C2: between resets, successive marks are placed by alternating players
\* (two marks in a row are never both X or both O), and once the game has a
\* winner or is drawn currentPlayer does not change until a reset.
C2_TurnAlternates ==
  [][/\ placesMark => lastPlaced' # lastPlaced
     /\ (winner # Null /\ lastOp' \notin ResetOps) => currentPlayer' = currentPlayer]_vars

\* C4: a score changes only in the step that ends a game, by exactly 1 and
\* for the mark that won it; nothing is added once the game has its winner,
\* nothing for a draw, and resetGame and the toggles leave scores alone.
C4_ScoreOncePerWonGame ==
  [][/\ scores' # scores =>
          /\ winner = Null
          /\ winner' \in Marks
          /\ scores' = [scores EXCEPT ![winner'] = @ + 1]
     /\ lastOp' \in ResetOps => scores' = scores]_vars

\* C6: a computer move that was started before resetGame or a toggle leaves
\* the board, currentPlayer and winner of the new game alone when it
\* completes, and no computer mark is placed while gameMode is 'multi'.
C6_NoStaleComputerMove ==
  [][/\ (\E k \in DOMAIN pending :
            /\ pending[k].kind = "computer"
            /\ pending[k].stale
            /\ pending' = removeAt(pending, k)
            /\ lastOp' = "computerMove")
          => UNCHANGED <<board, currentPlayer, winner>>
     /\ lastOp' = "computerMove" => gameMode = "single"]_vars

\* C8: between resets a step changes at most one cell, from empty to a
\* mark, and a cell that holds a mark keeps it.
C8_OneCellNoOverwrite ==
  [][lastOp' \notin ResetOps =>
       /\ \A i \in Idx : board[i] # Null => board'[i] = board[i]
       /\ Cardinality({i \in Idx : board'[i] # board[i]}) <= 1]_vars

\* C9: in single-player mode a tap made while currentPlayer is 'O' changes
\* nothing, and every O that appears on a single-player board is put there
\* by the computer's move.
C9_HumanNeverPlaysO ==
  [][/\ (gameMode = "single" /\ currentPlayer = "O" /\ lastOp' \in TapOps)
          => UNCHANGED <<board, currentPlayer, winner, scores, pending>>
     /\ (gameMode = "single" /\ lastOp' \notin ResetOps
           /\ \E i \in Idx : board'[i] = "O" /\ board[i] # "O")
          => lastOp' = "computerMove"]_vars

\* C10: resetGame leaves the empty board, currentPlayer 'X' and winner null
\* whatever the state before, and once winner is set the board does not
\* change until a reset.
C10_ResetAndTerminalFreeze ==
  [][/\ lastOp' = "resetGame" =>
          board' = initialBoard /\ currentPlayer' = "X" /\ winner' = Null
     /\ (winner # Null /\ lastOp' \notin ResetOps) => board' = board]_vars

hardProbed == lastOp = "probeSelect" /\ variant = "minimax" /\ difficulty = "hard"

\* the empty cells in which an O completes a line
C12_WinningCells(b) ==
  {i \in Idx : b[i] = Null /\ \E k \in 1..8 : C5_Complete([b EXCEPT ![i] = "O"], k)}

C12_ExampleA == [i \in Idx |-> IF i \in {0, 1} THEN "O" ELSE IF i \in {3, 4} THEN "X" ELSE Null]

C12_ExampleB == [i \in Idx |-> IF i \in {0, 1} THEN "X" ELSE IF i \in {3, 4} THEN "O" ELSE Null]

\* C12: when some empty cell completes a line for O, the hard selector
\* returns the lowest-indexed such cell, also when X threatens a line of its
\* own: 2 on [O,O,_,X,X,_,_,_,_] and 5 on [X,X,_,O,O,_,_,_,_].
C12_TakesLowestWinningCell ==
  hardProbed =>
    /\ C12_WinningCells(inBoard) # {} =>
         /\ out.move \in C12_WinningCells(inBoard)
         /\ \A i \in C12_WinningCells(inBoard) : out.move <= i
    /\ inBoard = C12_ExampleA => out.move = 2
    /\ inBoard = C12_ExampleB => out.move = 5

\* the selector has answered 5 on [X,X,_,O,O,_,_,_,_], where 2 would block X
C12_Witness ==
  /\ hardProbed
  /\ inBoard = C12_ExampleB
  /\ C12_WinningCells(inBoard) = {5}
  /\ out.move = 5

\* the value the root loop computes for cell i
C15_Value(b, i) == minimax([b EXCEPT ![i] = "O"], 0, FALSE).val

\* the empty cells of greatest value, from the set of (cell, value) pairs
C15_Greatest[pairs \in SUBSET (Idx \X Int)] ==
  {p[1] : p \in {q \in pairs : \A r \in pairs : q[2] >= r[2]}}

C15_Argmax(b) == C15_Greatest[{<<i, C15_Value(b, i)>> : i \in available(b)}]

C15_IsFirstOf[best \in SUBSET Idx, move \in -1 .. BOARD_SIZE] ==
  move \in best /\ \A i \in best : move <= i

\* C15: on every board in progress the hard selector returns the smallest
\* empty index whose value minimax(board with O there, 0, minimizing) is the
\* greatest among the empty cells.
C15_RootIsFirstArgmax ==
  hardProbed => C15_IsFirstOf[C15_Argmax(inBoard), out.move]

\* several cells share the greatest value, and the first of them is not the
\* first empty cell
C15_Witness ==
  /\ hardProbed
  /\ Cardinality(available(inBoard)) >= 4
  /\ \E i \in available(inBoard) : i < out.move
  /\ \E i \in available(inBoard) : i > out.move /\ C15_Value(inBoard, i) = C15_Value(inBoard, out.move)

C16_Won(b, mark) ==
  \E k \in 1..8 : C5_Complete(b, k) /\ b[C5_ClaimedOrder[k][1]] = mark

\* C16: minimax values a board won by O at depth d as 10 - d, one won by X
\* as -(10 - d) and a full board with no line as 0; evaluate yields 10, -10
\* or 0 and the division is reached only with 10 or -10; every value
\* returned is an integer from -10 to 10, and a value other than 0 is no
\* further from 0 than 10 - d (a win found deeper counts less).
C16_DepthShapedValues ==
  lastOp = "probeMinimax" =>
    LET b == inBoard.b
        d == inBoard.depth
    IN  /\ out \in -10 .. 10
        /\ abs(out) <= 10 - d
        /\ evaluate(b) \in {-10, 0, 10}
        /\ (C16_Won(b, "O") /\ ~C16_Won(b, "X")) => out = 10 - d
        /\ (C16_Won(b, "X") /\ ~C16_Won(b, "O")) => out = -(10 - d)
        /\ (~C16_Won(b, "O") /\ ~C16_Won(b, "X") /\ available(b) = {}) => out = 0

\* a board with no line yet, searched from depth 2, on which O's win is
\* found two levels further down
C16_Witness ==
  /\ lastOp = "probeMinimax"
  /\ inBoard.depth = 2
  /\ ~C16_Won(inBoard.b, "O") /\ ~C16_Won(inBoard.b, "X")
  /\ out = 10 - 4

\* C14: in every state, those seen while a handler waits for the sound
\* included, winner is what the winner function returns on the board (null
\* exactly when the board has no complete line and still has an empty cell).
C14_WinnerTracksBoard ==
  winner = (IF variant = "minimax" THEN evaluateWinner(board) ELSE checkWinner(board))

\* the timeout of the computer-move effect fires and makeComputerMove runs
timerFires ==
  \/ lastOp' = "computerStart"
  \/ lastOp' = "computerMove" /\ pending' = pending

\* C18: whenever the timeout fires and makeComputerMove runs, the board it
\* is given has an empty cell and no complete line, gameMode is 'single',
\* currentPlayer is 'O' and winner is null.
C18_ComputerMovePreconditions ==
  [][timerFires =>
       /\ available(board) # {}
       /\ \A k \in 1..8 : ~C5_Complete(board, k)
       /\ gameMode = "single"
       /\ currentPlayer = "O"
       /\ winner = Null]_vars

countOf(b, mark) == Cardinality({i \in Idx : b[i] = mark})

\* C19: in every state the board holds as many X as O or one X more, and
\* while winner is null currentPlayer is 'X' exactly when the counts are
\* equal.
C19_MarkCounts ==
  /\ countOf(board, "X") - countOf(board, "O") \in {0, 1}
  /\ winner = Null =>
       (currentPlayer = "X" <=> countOf(board, "X") = countOf(board, "O"))

computerTurn == gameMode = "single" /\ currentPlayer = "O" /\ winner = Null

\* C17: in single-player mode, whenever the game is in progress with
\* currentPlayer 'O', an O mark is eventually placed and the game is then
\* either back at currentPlayer 'X' or finished.
C17_ComputerEventuallyMoves ==
  computerTurn ~> (lastPlaced = "O" /\ (currentPlayer = "X" \/ winner # Null))

\* C13: whatever the sound does (loading, loaded, failed, switched off or
\* on during the game), once no handler is waiting for it the board,
\* currentPlayer, winner and scores are those a component with no sound
\* holds after the same taps, timeouts, resets and toggles.
C13_StateIndependentOfAudio ==
  (silent # NoTwin /\ pending = <<>>) =>
    /\ board = silent.board
    /\ currentPlayer = silent.currentPlayer
    /\ winner = silent.winner
    /\ scores = silent.scores

====
